---- MODULE Spec2Model ----
(***************************************************************************)
(* Model of the AI voice assistant's orchestration core.                   *)
(*                                                                         *)
(*  - AuthService (backend/src/services/authService.ts): the OAuth token   *)
(*    lifecycle of one principal, with concurrent getValidAccessToken      *)
(*    calls.  Specification SpecAuth.                                      *)
(*  - OpenAI conversation service and VoiceAssistant (services/            *)
(*    OpenAIService.js, services/VoiceAssistantService.js): one            *)
(*    conversational turn from the user message to the dispatched action.  *)
(*    Specification SpecTurn.  Specification SpecStore follows the         *)
(*    conversation store over many turns, with clearContext and the        *)
(*    credentials that initializeUser sets.                                *)
(*  - The REST backend (backend/src/services): POST /chat with             *)
(*    OpenAIService.processUserInput and executeAction, and                *)
(*    OpenAIService.processTextInput.  Specification SpecChat.             *)
(*                                                                         *)
(* Time is counted in minutes.  Tokens are numbers handed out by the auth  *)
(* provider; 0 stands for a missing (undefined or empty) token.            *)
(***************************************************************************)
EXTENDS Integers, Sequences, FiniteSets, TLC

VARIABLES
    user,       \* the principal's document in the users collection, or NoUser
    now,        \* the clock, in minutes
    issued,     \* number of tokens the auth provider has issued so far
    call,       \* per caller: the state of its getValidAccessToken call
    conversations,  \* OpenAI.conversations: contextId -> context
    dbMessages,     \* the conversation messages stored by DatabaseService
    turn,           \* the turn being handled and how far it has got
    turnNo,         \* number of turns started so far
    lastIncomplete, \* history: the intent of the last finished turn if it
                    \* was eligible but incomplete, else NoIntent
    credentials,    \* whose tokens the shared calendar and e-mail clients of
                    \* VoiceAssistant hold ("" before any setCredentials)
    chat,           \* the POST /chat request being handled
    chatNo,         \* number of POST /chat requests so far
    textInput,      \* the last OpenAIService.processTextInput call
    requests,       \* per connection: the POST /api/chat request in flight
    voice,          \* the voiceSession rows and the processVoiceInput call
    availability    \* a checkAvailability call: its inputs and its result

authVars == <<user, now, issued, call>>
turnVars == <<conversations, dbMessages, turn, turnNo, lastIncomplete>>
clientVars == <<credentials>>
chatVars == <<chat, chatNo, textInput>>
raceVars == <<requests>>
voiceVars == <<voice>>
slotVars == <<availability>>
vars == <<user, now, issued, call,
          conversations, dbMessages, turn, turnNo, lastIncomplete,
          credentials, chat, chatNo, textInput, requests,
          voice, availability>>

-----------------------------------------------------------------------------
(* Bounds *)

MaxNow == 1
MaxTokens == 3
NumCallers == 2
MaxTurns == 2

Callers == 1..NumCallers

-----------------------------------------------------------------------------
(* AuthService *)

\* authService.ts:137  now.getTime() + 5 * 60 * 1000
Skew == 5

\* Lifetimes (minutes) of the tokens the provider hands out: a token that is
\* inside the refresh window as soon as it is issued, and one that enters it
\* a minute later.
Lifetimes == {Skew, Skew + 1}

NoUser == [exists |-> FALSE]
NoToken == 0

\* What a provider answers to a code exchange or a refresh: a new access
\* token, possibly a new refresh token, and an expiry date.
ProviderTokens(n, withRefresh, life) ==
    [access_token  |-> n + 1,
     refresh_token |-> IF withRefresh THEN n + 2 ELSE NoToken,
     expiry_date   |-> now + life]

TokensIssuedBy(n, withRefresh) == IF withRefresh THEN n + 2 ELSE n + 1

\* authService.ts:139  expiryTime > fiveMinutesFromNow
IsStillValidGE(expiryTime, t) == expiryTime >= t + Skew
IsStillValid(expiryTime, t) == expiryTime > t + Skew

NoTokens == [access_token |-> NoToken, refresh_token |-> NoToken,
             expiry_date |-> 0]

IdleCall ==
    [pc |-> "idle", doc |-> NoUser, read |-> NoUser, readAt |-> 0,
     modified |-> {}, sent |-> NoToken, newTokens |-> NoTokens,
     result |-> [kind |-> "none"], cause |-> "",
     refreshCalls |-> 0, saved |-> FALSE]

\* A catch block that falls back to the token it has at hand.
FailedCallStale(c, why) ==
    IF c.doc.exists
    THEN [c EXCEPT !.pc = "done",
                   !.result = [kind |-> "token", token |-> c.doc.accessToken],
                   !.cause = why]
    ELSE [c EXCEPT !.pc = "done",
                   !.result = [kind |-> "error",
                               message |-> "Failed to get valid access token"],
                   !.cause = why]

\* authService.ts:159-161: every error inside getValidAccessToken is caught
\* and replaced by one and the same error.
FailedCall(c, why) ==
    [c EXCEPT !.pc = "done",
              !.result = [kind |-> "error",
                          message |-> "Failed to get valid access token"],
              !.cause = why]

\* authService.ts:65-95  saveUser (login or re-login of the principal)
saveUserOverwrites(tokens) ==
    [exists |-> TRUE,
     accessToken |-> tokens.access_token,
     refreshToken |-> tokens.refresh_token,
     tokenExpiry |-> tokens.expiry_date]

saveUser(tokens) ==
    IF user.exists
    THEN [user EXCEPT !.accessToken = tokens.access_token,
                      !.refreshToken = IF tokens.refresh_token # NoToken
                                       THEN tokens.refresh_token
                                       ELSE user.refreshToken,
                      !.tokenExpiry = tokens.expiry_date]
    ELSE [exists |-> TRUE,
          accessToken |-> tokens.access_token,
          refreshToken |-> tokens.refresh_token,
          tokenExpiry |-> tokens.expiry_date]

\* The provider hands out tokens up to the number limit.
LoginWithin(limit) ==
    /\ \E withRefresh \in BOOLEAN, life \in Lifetimes :
          /\ TokensIssuedBy(issued, withRefresh) <= limit
          /\ user' = saveUser(ProviderTokens(issued, withRefresh, life))
          /\ issued' = TokensIssuedBy(issued, withRefresh)
    /\ UNCHANGED <<now, call>>
    /\ UNCHANGED <<turnVars, clientVars, chatVars, raceVars, voiceVars, slotVars>>

Login == LoginWithin(MaxTokens)

Tick ==
    /\ now < MaxNow
    /\ now' = now + 1
    /\ UNCHANGED <<user, issued, call>>
    /\ UNCHANGED <<turnVars, clientVars, chatVars, raceVars, voiceVars, slotVars>>

\* authService.ts:129-148: User.findById resolves, then the synchronous part
\* up to the await of refreshAccessToken.
FindUser(p) ==
    /\ call[p].pc = "idle"
    /\ LET c0 == [IdleCall EXCEPT !.doc = user, !.read = user,
                                  !.readAt = now]
       IN  call' = [call EXCEPT ![p] =
             IF ~user.exists
             THEN FailedCall(c0, "User not found")
             ELSE IF IsStillValid(user.tokenExpiry, now)
             THEN [c0 EXCEPT !.pc = "done",
                             !.result = [kind |-> "token",
                                         token |-> user.accessToken]]
             ELSE IF user.refreshToken = NoToken
             THEN FailedCall(c0, "No refresh token available")
             ELSE [c0 EXCEPT !.pc = "refreshing",
                             !.sent = user.refreshToken,
                             !.refreshCalls = 1]]
    /\ UNCHANGED <<user, now, issued>>
    /\ UNCHANGED <<turnVars, clientVars, chatVars, raceVars, voiceVars, slotVars>>

\* authService.ts:129  User.findById rejects (storage failure)
FindUserThrows(p) ==
    /\ call[p].pc = "idle"
    /\ call' = [call EXCEPT ![p] =
                  FailedCall(IdleCall, "storage failure")]
    /\ UNCHANGED <<user, now, issued>>
    /\ UNCHANGED <<turnVars, clientVars, chatVars, raceVars, voiceVars, slotVars>>

\* authService.ts:151-155: the fields the handler assigns from the response.
AssignNewTokensAlways(doc, newTokens) ==
    [doc |-> [doc EXCEPT !.accessToken = newTokens.access_token,
                         !.refreshToken = newTokens.refresh_token,
                         !.tokenExpiry = newTokens.expiry_date],
     modified |-> {"accessToken", "refreshToken", "tokenExpiry"}]

AssignNewTokens(doc, newTokens) ==
    [doc |-> [doc EXCEPT !.accessToken = newTokens.access_token,
                         !.refreshToken = IF newTokens.refresh_token # NoToken
                                          THEN newTokens.refresh_token
                                          ELSE doc.refreshToken,
                         !.tokenExpiry = newTokens.expiry_date],
     modified |-> IF newTokens.refresh_token # NoToken
                  THEN {"accessToken", "refreshToken", "tokenExpiry"}
                  ELSE {"accessToken", "tokenExpiry"}]

\* authService.ts:116-120 and 148-156: the provider answers the refresh; the
\* handler assigns the new values and starts user.save().
RefreshAnsweredWithin(p, limit) ==
    /\ call[p].pc = "refreshing"
    /\ \E withRefresh \in BOOLEAN, life \in Lifetimes :
          /\ TokensIssuedBy(issued, withRefresh) <= limit
          /\ LET newTokens == ProviderTokens(issued, withRefresh, life)
                 a == AssignNewTokens(call[p].doc, newTokens)
             IN  call' = [call EXCEPT ![p].pc = "saving",
                                      ![p].newTokens = newTokens,
                                      ![p].doc = a.doc,
                                      ![p].modified = a.modified]
          /\ issued' = TokensIssuedBy(issued, withRefresh)
    /\ UNCHANGED <<user, now>>
    /\ UNCHANGED <<turnVars, clientVars, chatVars, raceVars, voiceVars, slotVars>>

RefreshAnswered(p) == RefreshAnsweredWithin(p, MaxTokens)

\* authService.ts:121-123 and 159-161: the refresh request fails.
RefreshThrows(p) ==
    /\ call[p].pc = "refreshing"
    /\ call' = [call EXCEPT ![p] =
                  FailedCall(call[p], "Failed to refresh access token")]
    /\ UNCHANGED <<user, now, issued>>
    /\ UNCHANGED <<turnVars, clientVars, chatVars, raceVars, voiceVars, slotVars>>

\* Mongoose's save() writes the modified paths of the document.
WritePaths(stored, doc, paths) ==
    [exists |-> TRUE,
     accessToken |-> IF "accessToken" \in paths
                     THEN doc.accessToken ELSE stored.accessToken,
     refreshToken |-> IF "refreshToken" \in paths
                      THEN doc.refreshToken ELSE stored.refreshToken,
     tokenExpiry |-> IF "tokenExpiry" \in paths
                     THEN doc.tokenExpiry ELSE stored.tokenExpiry]

\* authService.ts:156-158: user.save() resolves; the new access token is
\* returned.
SaveResolved(p) ==
    /\ call[p].pc = "saving"
    /\ user' = WritePaths(user, call[p].doc, call[p].modified)
    /\ call' = [call EXCEPT ![p].pc = "done",
                            ![p].saved = TRUE,
                            ![p].result = [kind |-> "token",
                                           token |-> call[p].doc.accessToken]]
    /\ UNCHANGED <<now, issued>>
    /\ UNCHANGED <<turnVars, clientVars, chatVars, raceVars, voiceVars, slotVars>>

\* authService.ts:156  user.save() rejects (storage failure)
SaveThrows(p) ==
    /\ call[p].pc = "saving"
    /\ call' = [call EXCEPT ![p] = FailedCall(call[p], "storage failure")]
    /\ UNCHANGED <<user, now, issued>>
    /\ UNCHANGED <<turnVars, clientVars, chatVars, raceVars, voiceVars, slotVars>>

\* The caller has taken the outcome; the caller may call again.
CallReturns(p) ==
    /\ call[p].pc = "done"
    /\ call' = [call EXCEPT ![p] = IdleCall]
    /\ UNCHANGED <<user, now, issued>>
    /\ UNCHANGED <<turnVars, clientVars, chatVars, raceVars, voiceVars, slotVars>>


\* Refreshes of a principal who has logged in and whose access token is
\* inside the refresh window: enough tokens for the refreshes of all
\* callers, and no clock.
MaxRefreshTokens == 5

RefreshAnsweredLate(p) == RefreshAnsweredWithin(p, MaxRefreshTokens)

\* The principal after a first login that gave the tokens 1 and 2.
LoggedInUser ==
    [exists |-> TRUE, accessToken |-> 1, refreshToken |-> 2,
     tokenExpiry |-> Skew]

InitRefreshVars ==
    /\ user = LoggedInUser
    /\ now = 0
    /\ issued = 2
    /\ call = [p \in Callers |-> IdleCall]

NextRefresh ==
    \/ \E p \in Callers : FindUser(p)
    \/ \E p \in Callers : RefreshAnsweredLate(p)
    \/ \E p \in Callers : RefreshThrows(p)
    \/ \E p \in Callers : SaveResolved(p)
    \/ \E p \in Callers : SaveThrows(p)
    \/ \E p \in Callers : CallReturns(p)

NextAuth ==
    \/ Login
    \/ Tick
    \/ \E p \in Callers : FindUser(p)
    \/ \E p \in Callers : FindUserThrows(p)
    \/ \E p \in Callers : RefreshAnswered(p)
    \/ \E p \in Callers : RefreshThrows(p)
    \/ \E p \in Callers : SaveResolved(p)
    \/ \E p \in Callers : SaveThrows(p)
    \/ \E p \in Callers : CallReturns(p)


-----------------------------------------------------------------------------
(* Values the classifier puts into an intent's parameters *)

Undefined == [kind |-> "undefined"]
Str(s) == [kind |-> "string", s |-> s]
Arr(a) == [kind |-> "array", a |-> a]
Obj == [kind |-> "object"]
Null == [kind |-> "null"]

\* JavaScript truthiness: undefined, null and the empty string are falsy,
\* every array (the empty one too) and every object is truthy.
Truthy(v) ==
    CASE v.kind = "undefined" -> FALSE
      [] v.kind = "null"      -> FALSE
      [] v.kind = "string"    -> v.s # ""
      [] OTHER                -> TRUE

\* E-mail addresses are sequences of characters.
GoodAddress == <<"a", "@", "b", ".", "c">>
BadAddress == <<"a", ".", "c">>

WhiteSpace == {" "}

\* String.prototype.trim
RECURSIVE TrimLeft(_)
TrimLeft(w) ==
    IF w # <<>> /\ Head(w) \in WhiteSpace THEN TrimLeft(Tail(w)) ELSE w

RECURSIVE TrimRight(_)
TrimRight(w) ==
    IF w # <<>> /\ w[Len(w)] \in WhiteSpace
    THEN TrimRight(SubSeq(w, 1, Len(w) - 1)) ELSE w

Trim(w) == TrimRight(TrimLeft(w))

\* [^\s@]+
Plain(w) ==
    /\ Len(w) > 0
    /\ \A i \in 1..Len(w) : w[i] \notin WhiteSpace /\ w[i] # "@"

\* VoiceAssistantService.js (part_001:111)  /^[^\s@]+@[^\s@]+\.[^\s@]+$/
emailRegex(w) ==
    \E i, j \in 1..Len(w) :
        /\ i < j
        /\ w[i] = "@"
        /\ w[j] = "."
        /\ Plain(SubSeq(w, 1, i - 1))
        /\ Plain(SubSeq(w, i + 1, j - 1))
        /\ Plain(SubSeq(w, j + 1, Len(w)))

\* part_001:110-124  validateEmailAddresses
validateEmailAddresses(emails) ==
    [valid   |-> SelectSeq(emails, LAMBDA e : emailRegex(Trim(e))),
     invalid |-> SelectSeq(emails, LAMBDA e : ~emailRegex(Trim(e)))]

-----------------------------------------------------------------------------
(* Intents *)

\* part_001:230  aiResponse.intent.confidence > 0.7, in hundredths
ExecFloor == 70

Confidences == {0, 70, 85}

NoParameters ==
    [title |-> Undefined, dateTime |-> Undefined, attendees |-> Undefined,
     date |-> Undefined, recipients |-> Undefined, subject |-> Undefined,
     message |-> Undefined, timeframe |-> Undefined,
     eventIdentifier |-> Undefined, updates |-> Undefined]

ParamNames == DOMAIN NoParameters

ScheduleParameters ==
    { [NoParameters EXCEPT !.title = t, !.dateTime = d, !.attendees = a] :
        t \in {Undefined, Str(""), Str("Budget Review")},
        d \in {Undefined, Str(""), Str("tomorrow")},
        a \in {Undefined, Arr(<<>>), Arr(<<GoodAddress>>)} }

AvailabilityParameters ==
    { [NoParameters EXCEPT !.date = d] :
        d \in {Undefined, Str(""), Str("2025-01-15")} }

EmailParameters ==
    { [NoParameters EXCEPT !.recipients = r, !.subject = s, !.message = m] :
        r \in {Undefined, Arr(<<>>), Arr(<<GoodAddress>>),
               Arr(<<BadAddress>>)},
        s \in {Undefined, Str(""), Str("Budget")},
        m \in {Undefined, Str("See you there")} }

GetEventsParameters ==
    { [NoParameters EXCEPT !.timeframe = f] :
        f \in {Undefined, Str("today"), Str("this week")} }

CancelParameters ==
    { [NoParameters EXCEPT !.eventIdentifier = e] :
        e \in {Undefined, Str("ev1")} }

UpdateParameters ==
    { [NoParameters EXCEPT !.eventIdentifier = e, !.updates = u] :
        e \in {Undefined, Str("ev1")}, u \in {Undefined, Obj} }

ParametersOf(action) ==
    CASE action = "schedule_event"     -> ScheduleParameters
      [] action = "check_availability" -> AvailabilityParameters
      [] action = "send_email"         -> EmailParameters
      [] action = "get_events"         -> GetEventsParameters
      [] action = "cancel_event"       -> CancelParameters
      [] action = "update_event"       -> UpdateParameters
      [] OTHER                         -> {NoParameters}

\* part_003:55 lists the actions the classifier is asked for; "search_email"
\* is an action name the dispatcher's switch does not know.
Actions ==
    {"schedule_event", "check_availability", "send_email", "get_events",
     "cancel_event", "update_event", "none", "search_email"}

Intents ==
    UNION { { [action |-> a, confidence |-> c, parameters |-> ps] :
                c \in Confidences, ps \in ParametersOf(a) } : a \in Actions }

\* part_003:83 and part_003:149
NoIntent == [action |-> "none", confidence |-> 0, parameters |-> NoParameters]

\* part_003:155-166  checkIfNeedsMoreInfo
checkIfNeedsMoreInfo(intent) ==
    CASE intent.action = "schedule_event" ->
            ~Truthy(intent.parameters.title)
              \/ ~Truthy(intent.parameters.dateTime)
      [] intent.action = "check_availability" ->
            ~Truthy(intent.parameters.date)
      [] intent.action = "send_email" ->
            ~Truthy(intent.parameters.recipients)
              \/ ~Truthy(intent.parameters.subject)
      [] OTHER -> FALSE

-----------------------------------------------------------------------------
(* VoiceAssistant: the action handlers.  A handler's run is the sequence of   *)
(* calendar and e-mail operations it invoked and how it ended; a provider     *)
(* operation either answers or throws.                                        *)

Returned(calls, ok, msg) ==
    [calls |-> calls, thrown |-> FALSE, success |-> ok, message |-> msg]

Threw(calls, msg) ==
    [calls |-> calls, thrown |-> TRUE, success |-> FALSE, message |-> msg]

NotRun == [calls |-> <<>>, thrown |-> FALSE, success |-> FALSE,
           message |-> "not dispatched"]

\* part_001:277  if (!title || !dateTime)
MissingForSchedulingAnd(parameters) ==
    ~Truthy(parameters.title) /\ ~Truthy(parameters.dateTime)

MissingForScheduling(parameters) ==
    ~Truthy(parameters.title) \/ ~Truthy(parameters.dateTime)

\* part_001:273-323  handleScheduleEvent
handleScheduleEvent(parameters) ==
    IF MissingForScheduling(parameters)
    THEN {Returned(<<>>, FALSE, "Missing required parameters for scheduling")}
    ELSE {Threw(<<"createEvent">>, "Failed to create calendar event")}
         \cup
         (IF Truthy(parameters.attendees) /\ Len(parameters.attendees.a) > 0
          THEN {Threw(<<"createEvent", "sendEmail">>, "Failed to send email"),
                Returned(<<"createEvent", "sendEmail">>, TRUE,
                         "Event scheduled successfully")}
          ELSE {Returned(<<"createEvent">>, TRUE,
                         "Event scheduled successfully")})

\* part_001:326-354  handleCheckAvailability
handleCheckAvailability(parameters) ==
    IF ~Truthy(parameters.date)
    THEN {Returned(<<>>, FALSE, "Date is required to check availability")}
    ELSE {Threw(<<"checkAvailability">>, "Failed to check availability"),
          Returned(<<"checkAvailability">>, TRUE,
                   "Found available time slots")}

\* part_001:357-386  handleGetEvents
handleGetEvents(parameters) ==
    LET op == IF parameters.timeframe = Str("this week")
              THEN "getThisWeeksEvents" ELSE "getTodaysEvents"
    IN  {Threw(<<op>>, "Failed to fetch calendar events"),
         Returned(<<op>>, TRUE, "summary")}

\* part_001:389-433  handleSendEmail
handleSendEmail(parameters) ==
    IF ~Truthy(parameters.recipients) \/ ~Truthy(parameters.subject)
    THEN {Returned(<<>>, FALSE, "Recipients and subject are required")}
    ELSE IF Len(validateEmailAddresses(parameters.recipients.a).invalid) > 0
    THEN {Returned(<<>>, FALSE, "Invalid email addresses")}
    ELSE {Threw(<<"sendEmail">>, "Failed to send email"),
          Returned(<<"sendEmail">>, TRUE, "Email sent successfully")}

\* part_001:436-454  handleCancelEvent
handleCancelEvent(parameters) ==
    IF ~Truthy(parameters.eventIdentifier)
    THEN {Returned(<<>>, FALSE, "Event identifier is required")}
    ELSE {Threw(<<"deleteEvent">>, "Failed to delete calendar event"),
          Returned(<<"deleteEvent">>, TRUE, "Event cancelled successfully")}

\* part_001:457-476  handleUpdateEvent
handleUpdateEvent(parameters) ==
    IF ~Truthy(parameters.eventIdentifier) \/ ~Truthy(parameters.updates)
    THEN {Returned(<<>>, FALSE, "Event identifier and updates are required")}
    ELSE {Threw(<<"updateEvent">>, "Failed to update calendar event"),
          Returned(<<"updateEvent">>, TRUE, "Event updated successfully")}

\* part_001:242-270  handleIntent
handleIntent(intent) ==
    CASE intent.action = "schedule_event" ->
            handleScheduleEvent(intent.parameters)
      [] intent.action = "check_availability" ->
            handleCheckAvailability(intent.parameters)
      [] intent.action = "get_events" ->
            handleGetEvents(intent.parameters)
      [] intent.action = "send_email" ->
            handleSendEmail(intent.parameters)
      [] intent.action = "cancel_event" ->
            handleCancelEvent(intent.parameters)
      [] intent.action = "update_event" ->
            handleUpdateEvent(intent.parameters)
      [] OTHER -> {Returned(<<>>, FALSE, "Intent not handled")}

\* part_001:230  if (aiResponse.intent.confidence > 0.7)
EligibleGE(confidence) == confidence >= ExecFloor
Eligible(confidence) == confidence > ExecFloor

-----------------------------------------------------------------------------
(* OpenAI conversation service and the turn handlers *)

UserIds == {"user1"}
SessionIds == {"default"}

\* part_003:13  `${userId}-${sessionId}`
ContextId(userId, sessionId) == userId \o "-" \o sessionId

\* part_002:85 and 107: userId and sessionId are whatever strings the request
\* body holds; these pairs have ids that contain the separator.
KeyPairs == {<<"u-1", "s">>, <<"u", "1-s">>, <<"u", "s">>}

ContextIds ==
    {ContextId(u, s) : u \in UserIds, s \in SessionIds}
        \cup {ContextId(pair[1], pair[2]) : pair \in KeyPairs}

NoContext == [exists |-> FALSE]

SystemMessage == [role |-> "system", content |-> "system prompt", turn |-> 0]

\* part_003:16-39  the context getContext creates
NewContext ==
    [exists |-> TRUE, messages |-> <<SystemMessage>>,
     currentTask |-> Undefined, pendingData |-> Undefined]

\* part_003:12-43  getContext: the map after the call
getContext(convs, id) ==
    IF convs[id].exists THEN convs ELSE [convs EXCEPT ![id] = NewContext]

\* part_003:132  conversationContext.messages.length > 10
MaxMessages == 10
\* part_003:136  conversationContext.messages.slice(-9)
KeptMessages == 9

\* Array.prototype.slice(-k)
SliceLast(msgs, k) ==
    IF Len(msgs) <= k THEN msgs ELSE SubSeq(msgs, Len(msgs) - k + 1, Len(msgs))

\* part_003:131-138  keep the system message and the last 9 messages
TrimMessagesLastTen(msgs) ==
    IF Len(msgs) > MaxMessages THEN SliceLast(msgs, MaxMessages) ELSE msgs

TrimMessages(msgs) ==
    IF Len(msgs) > MaxMessages
    THEN LET sys == SelectSeq(msgs, LAMBDA m : m.role = "system")
         IN  (IF sys # <<>> THEN <<Head(sys)>> ELSE <<>>)
               \o SliceLast(msgs, KeptMessages)
    ELSE msgs

Apology == "I apologize, but I encountered an error processing your request."
Fallback == "I apologize, but I had trouble processing that request."

IdleTurn ==
    [pc |-> "idle", entry |-> "", userId |-> "", sessionId |-> "", n |-> 0,
     hadTask |-> FALSE, intent |-> NoIntent,
     aiResponse |-> [none |-> TRUE],
     handled |-> <<>>, run |-> NotRun,
     outcome |-> [kind |-> "none"],
     detached |-> FALSE, credential |-> ""]

TurnContextId == ContextId(turn.userId, turn.sessionId)

\* r.needsMoreInfo as a JavaScript condition: the error result of
\* generateResponse (part_003:147-150) has no such field.
NeedsMoreInfoOf(r) ==
    IF "needsMoreInfo" \in DOMAIN r THEN r.needsMoreInfo ELSE FALSE

\* part_001:205-217 and part_003:94-101: processTextInput stores the user
\* message, generateResponse gets the context and appends the user message.
\* part_003:310-322: handleFollowUp looks at the context's current task and
\* calls generateResponse.
BeginTurn(entry, userId, sessionId, limit) ==
    /\ turn.pc = "idle"
    /\ turnNo < limit
    /\ LET id == ContextId(userId, sessionId)
           n == turnNo + 1
           convs == getContext(conversations, id)
       IN  /\ conversations' =
                 [convs EXCEPT ![id].messages =
                     Append(@, [role |-> "user", content |-> "utterance",
                                turn |-> n])]
           /\ turn' = [IdleTurn EXCEPT
                         !.pc = "analyzeIntent", !.entry = entry,
                         !.userId = userId, !.sessionId = sessionId, !.n = n,
                         !.hadTask = (entry = "handleFollowUp"
                                        /\ Truthy(convs[id].currentTask))]
           /\ dbMessages' =
                 IF entry = "processTextInput"
                 THEN Append(dbMessages, [role |-> "USER", turn |-> n])
                 ELSE dbMessages
    /\ turnNo' = turnNo + 1
    /\ UNCHANGED lastIncomplete
    /\ UNCHANGED <<authVars, clientVars, chatVars, raceVars, voiceVars, slotVars>>

StartTurn(entry, userId, sessionId) ==
    BeginTurn(entry, userId, sessionId, MaxTurns)

\* part_003:46-85  analyzeIntent: whatever the classifier answers, out of
\* the intents of pool; a provider or parse failure gives NoIntent.
Classify(pool) ==
    /\ turn.pc = "analyzeIntent"
    /\ \E intent \in pool :
          turn' = [turn EXCEPT !.pc = "completion", !.intent = intent]
    /\ UNCHANGED <<conversations, dbMessages, turnNo, lastIncomplete>>
    /\ UNCHANGED <<authVars, clientVars, chatVars, raceVars, voiceVars, slotVars>>

AnalyzeIntent == Classify(Intents)

\* part_003:113-144: the completion answers; the reply is appended, the
\* context trimmed and the result returned with the gate's verdict.  The
\* turn works on the context object it got at its start: once clearContext
\* has taken that object out of the map, the map no longer shows what the
\* turn appends.
CompletionAnswers ==
    /\ turn.pc = "completion"
    /\ \E content \in {"reply", ""} :
          LET assistantResponse == IF content # "" THEN content ELSE Fallback
              id == TurnContextId
          IN  /\ conversations' =
                    IF turn.detached
                    THEN conversations
                    ELSE [conversations EXCEPT ![id].messages =
                            TrimMessages(
                               Append(@, [role |-> "assistant",
                                          content |-> assistantResponse,
                                          turn |-> turn.n]))]
              /\ turn' = [turn EXCEPT
                            !.pc = "afterResponse",
                            !.aiResponse =
                               [response |-> assistantResponse,
                                intent |-> turn.intent,
                                needsMoreInfo |->
                                   checkIfNeedsMoreInfo(turn.intent)]]
    /\ UNCHANGED <<dbMessages, turnNo, lastIncomplete>>
    /\ UNCHANGED <<authVars, clientVars, chatVars, raceVars, voiceVars, slotVars>>

\* part_003:145-151: the completion throws; generateResponse returns the
\* apology with the intent "none".
CompletionThrows ==
    /\ turn.pc = "completion"
    /\ turn' = [turn EXCEPT
                  !.pc = "afterResponse",
                  !.aiResponse = [response |-> Apology, intent |-> NoIntent]]
    /\ UNCHANGED <<conversations, dbMessages, turnNo, lastIncomplete>>
    /\ UNCHANGED <<authVars, clientVars, chatVars, raceVars, voiceVars, slotVars>>

\* part_001:219-234: processTextInput stores the reply and, when the
\* confidence is above the floor, hands the intent to handleIntent.  The
\* handlers call the shared calendar and e-mail clients, which work with the
\* credentials set last.
ProcessTextInputFinish ==
    /\ turn.pc = "afterResponse"
    /\ turn.entry = "processTextInput"
    /\ dbMessages' = Append(dbMessages, [role |-> "ASSISTANT", turn |-> turn.n])
    /\ IF Eligible(turn.aiResponse.intent.confidence)
       THEN \E run \in handleIntent(turn.aiResponse.intent) :
               turn' = [turn EXCEPT
                          !.pc = "done",
                          !.handled = <<turn.aiResponse.intent>>,
                          !.run = run,
                          !.credential = credentials,
                          !.outcome =
                             IF run.thrown
                             THEN [kind |-> "thrown", error |-> run.message]
                             ELSE [kind |-> "returned",
                                   value |-> turn.aiResponse]]
       ELSE turn' = [turn EXCEPT
                       !.pc = "done",
                       !.outcome = [kind |-> "returned",
                                    value |-> turn.aiResponse]]
    /\ UNCHANGED <<conversations, turnNo, lastIncomplete>>
    /\ UNCHANGED <<authVars, clientVars, chatVars, raceVars, voiceVars, slotVars>>

\* part_003:324-345: handleFollowUp returns the reply, and the action with
\* its parameters unless a task is still waiting for information.
HandleFollowUpFinish ==
    /\ turn.pc = "afterResponse"
    /\ turn.entry = "handleFollowUp"
    /\ LET r == turn.aiResponse
           id == TurnContextId
           full == [response |-> r.response, action |-> r.intent.action,
                    parameters |-> r.intent.parameters]
       IN  IF turn.hadTask
           THEN IF Eligible(r.intent.confidence) /\ ~NeedsMoreInfoOf(r)
                THEN /\ conversations' =
                           IF turn.detached
                           THEN conversations
                           ELSE [conversations EXCEPT
                                   ![id].currentTask = Undefined,
                                   ![id].pendingData = Undefined]
                     /\ turn' = [turn EXCEPT
                                   !.pc = "done",
                                   !.outcome = [kind |-> "returned",
                                                value |-> full]]
                ELSE /\ turn' = [turn EXCEPT
                                   !.pc = "done",
                                   !.outcome =
                                      [kind |-> "returned",
                                       value |-> [response |-> r.response]]]
                     /\ UNCHANGED conversations
           ELSE /\ turn' = [turn EXCEPT
                              !.pc = "done",
                              !.outcome = [kind |-> "returned",
                                           value |-> full]]
                /\ UNCHANGED conversations
    /\ UNCHANGED <<dbMessages, turnNo, lastIncomplete>>
    /\ UNCHANGED <<authVars, clientVars, chatVars, raceVars, voiceVars, slotVars>>

\* The caller has the turn's outcome; the next turn may start.
TurnReturns ==
    /\ turn.pc = "done"
    /\ lastIncomplete' =
          IF /\ Eligible(turn.aiResponse.intent.confidence)
             /\ NeedsMoreInfoOf(turn.aiResponse)
          THEN turn.aiResponse.intent
          ELSE NoIntent
    /\ turn' = IdleTurn
    /\ UNCHANGED <<conversations, dbMessages, turnNo>>
    /\ UNCHANGED <<authVars, clientVars, chatVars, raceVars, voiceVars, slotVars>>

\* part_003:298-301  clearContext: conversations.delete(contextId)
clearContextMessages(convs, id) ==
    IF convs[id].exists
    THEN [convs EXCEPT ![id].messages = SelectSeq(@, LAMBDA m : FALSE)]
    ELSE convs

clearContext(convs, id) == [convs EXCEPT ![id] = NoContext]

\* A turn that is between getContext and its last write to the context.
InFlight == turn.pc \in {"analyzeIntent", "completion", "afterResponse"}

ClearContext(userId, sessionId) ==
    LET id == ContextId(userId, sessionId)
    IN  /\ conversations' = clearContext(conversations, id)
        /\ turn' = IF InFlight /\ TurnContextId = id
                   THEN [turn EXCEPT !.detached = TRUE]
                   ELSE turn
        /\ UNCHANGED <<dbMessages, turnNo, lastIncomplete>>
        /\ UNCHANGED <<authVars, clientVars, chatVars, raceVars, voiceVars, slotVars>>

\* Whoever may sign in with Google.
Principals == {"user1", "user2"}

\* part_001:149-167  initializeUser: the tokens go to the calendar and e-mail
\* clients that all users share (part_004:16-18).
InitializeUser(userId, hasTokens) ==
    /\ credentials' = IF hasTokens THEN userId ELSE credentials
    /\ UNCHANGED <<authVars, turnVars, chatVars, raceVars, voiceVars, slotVars>>

\* The conversation store over many turns: the classifier's answers are
\* taken from a small pool, the number of turns is what trimming needs.
MaxStoreTurns == 8

StoreIntents ==
    {NoIntent,
     [action |-> "get_events", confidence |-> 85,
      parameters |-> [NoParameters EXCEPT !.timeframe = Str("today")]]}

StartStoreTurn(entry, userId, sessionId) ==
    BeginTurn(entry, userId, sessionId, MaxStoreTurns)

AnalyzeStoreIntent == Classify(StoreIntents)

\* Turns and clears of the pairs of KeyPairs.
MaxKeyTurns == 2

StartKeyTurn(userId, sessionId) ==
    BeginTurn("processTextInput", userId, sessionId, MaxKeyTurns)

NextKeys ==
    \/ \E pair \in KeyPairs : StartKeyTurn(pair[1], pair[2])
    \/ AnalyzeStoreIntent
    \/ CompletionAnswers
    \/ CompletionThrows
    \/ ProcessTextInputFinish
    \/ TurnReturns
    \/ \E pair \in KeyPairs : ClearContext(pair[1], pair[2])

-----------------------------------------------------------------------------
(* The REST backend (backend/src): OpenAIService with function calling, the   *)
(* POST /chat route and executeAction.  Confidences are in hundredths.        *)

\* calendarService.ts:528-660  the functions the model may call
FunctionNames ==
    {"create_calendar_event", "update_calendar_event",
     "delete_calendar_event", "check_availability", "search_emails",
     "send_email"}

\* A function name outside that list: openaiService.ts:298 knows it,
\* mapFunctionToAction does not.
AnsweredNames == FunctionNames \cup {"mark_email_read"}

\* What chat.completions.create does: it throws, answers with text (possibly
\* empty), or answers with a function call whose arguments are not JSON, are
\* an empty object, or are complete.
ProviderAnswers ==
    {[kind |-> "throws"]}
      \cup {[kind |-> "content", content |-> c] : c \in {"", "reply"}}
      \cup {[kind |-> "function_call", name |-> n, arguments |-> a] :
              n \in AnsweredNames, a \in {"unparsable", "empty", "full"}}

\* The answer made the classifier fail: the provider threw or the arguments
\* of the function call cannot be parsed.
ProviderFault(answer) ==
    \/ answer.kind = "throws"
    \/ answer.kind = "function_call" /\ answer.arguments = "unparsable"

ActionOfType(type) == [kind |-> "object", type |-> type]

\* calendarService.ts:687-725  mapFunctionToAction
mapFunctionToAction(functionName) ==
    CASE functionName = "create_calendar_event" ->
            ActionOfType("calendar_create")
      [] functionName = "update_calendar_event" ->
            ActionOfType("calendar_update")
      [] functionName = "delete_calendar_event" ->
            ActionOfType("calendar_delete")
      [] functionName = "check_availability" ->
            ActionOfType("calendar_check_availability")
      [] functionName = "search_emails" -> ActionOfType("email_search")
      [] functionName = "send_email" -> ActionOfType("email_send")
      [] OTHER -> Null

\* calendarService.ts:663-684  generateActionResponse; args.to.join throws
\* when the arguments of send_email have no recipients.
generateActionResponseThrows(functionName, arguments) ==
    functionName = "send_email" /\ arguments = "empty"

generateActionResponse(functionName) ==
    IF functionName \in FunctionNames
    THEN "I'll " \o functionName
    ELSE "I'll help you with that request."

ChatApology ==
    "I'm sorry, I encountered an error processing your request."

\* calendarService.ts:359-409  OpenAIService.processUserInput
processUserInput(answer) ==
    CASE answer.kind = "throws" ->
            [response |-> ChatApology, action |-> Undefined,
             confidence |-> 10]
      [] answer.kind = "content" ->
            [response |-> IF answer.content # "" THEN answer.content
                          ELSE "I'm sorry, I couldn't process that request.",
             action |-> Undefined, confidence |-> 80]
      [] OTHER ->
            IF \/ answer.arguments = "unparsable"
               \/ generateActionResponseThrows(answer.name, answer.arguments)
            THEN [response |-> ChatApology, action |-> Undefined,
                  confidence |-> 10]
            ELSE [response |-> generateActionResponse(answer.name),
                  action |-> mapFunctionToAction(answer.name),
                  confidence |-> 90]

\* openaiService.ts:292-302  shouldRefreshData
shouldRefreshData(actionName) ==
    actionName \in {"create_calendar_event", "update_calendar_event",
                    "delete_calendar_event", "send_email", "mark_email_read"}

\* openaiService.ts:44-100  OpenAIService.processTextInput: the other
\* OpenAIService of the backend; its catch throws again.
processTextInput(answer) ==
    CASE answer.kind = "throws" ->
            [kind |-> "thrown", error |-> "Failed to process text input"]
      [] answer.kind = "content" ->
            [kind |-> "returned",
             value |-> [response |-> IF answer.content # ""
                                     THEN answer.content
                                     ELSE "I'm sorry, I didn't understand that.",
                        action |-> Undefined,
                        shouldRefreshData |-> FALSE]]
      [] OTHER ->
            IF answer.arguments = "unparsable"
            THEN [kind |-> "thrown", error |-> "Failed to process text input"]
            ELSE [kind |-> "returned",
                  value |-> [response |-> "I'll help you with that.",
                             action |-> [kind |-> "object",
                                         type |-> IF answer.arguments = "full"
                                                  THEN "calendar"
                                                  ELSE "general",
                                         action |-> answer.name,
                                         confidence |-> 90],
                             shouldRefreshData |->
                                shouldRefreshData(answer.name)]]

Failure(msg) == [success |-> FALSE, error |-> msg]

\* What a service method of CalendarService or EmailService does for a user
\* (calendarService.ts:77-127, emailService.ts:148-195): it asks AuthService
\* for a client, which gets a valid access token or throws
\* (authService.ts:165-175), calls the provider once, and turns whatever was
\* thrown into its own error.  A run tells whether the token was obtained,
\* the provider calls made and what executeAction returns.
ServiceRuns(op, value, failure) ==
    {[acquired |-> FALSE, calls |-> <<>>, result |-> Failure(failure)],
     [acquired |-> TRUE, calls |-> <<op>>, result |-> Failure(failure)],
     [acquired |-> TRUE, calls |-> <<op>>, result |-> value]}

NoChatRun == [acquired |-> FALSE, calls |-> <<>>, result |-> Null]

\* emailService.ts:749-790  executeAction
executeAction(action) ==
    CASE action.type = "calendar_create" ->
            ServiceRuns("createEvent", [id |-> "event"],
                        "Failed to create calendar event")
      [] action.type = "calendar_update" ->
            ServiceRuns("updateEvent", [id |-> "event"],
                        "Failed to update calendar event")
      [] action.type = "calendar_delete" ->
            ServiceRuns("deleteEvent",
                        [success |-> TRUE, message |-> "Event deleted"],
                        "Failed to delete calendar event")
      [] action.type = "calendar_check_availability" ->
            ServiceRuns("getEvents", [isAvailable |-> TRUE],
                        "Failed to check availability")
      [] action.type = "email_send" ->
            ServiceRuns("sendEmail", [messageId |-> "message"],
                        "Failed to send email")
      [] action.type = "email_search" ->
            ServiceRuns("searchEmails", [emails |-> <<>>],
                        "Failed to search emails")
      [] OTHER ->
            {[acquired |-> FALSE, calls |-> <<>>,
              result |-> Failure("Unknown action type")]}

MaxChats == 2

IdleChat ==
    [pc |-> "idle", userId |-> "", answer |-> [kind |-> "none"],
     aiResponse |-> [response |-> "", action |-> Undefined,
                     confidence |-> 0],
     executed |-> FALSE, run |-> NoChatRun,
     response |-> [status |-> 0]]

\* emailService.ts:620-629  POST /chat for an authenticated user
ChatRequest(userId, hasMessage) ==
    /\ chat.pc = "idle"
    /\ chatNo < MaxChats
    /\ chatNo' = chatNo + 1
    /\ chat' = IF hasMessage
               THEN [IdleChat EXCEPT !.pc = "prefetch", !.userId = userId]
               ELSE [IdleChat EXCEPT
                       !.pc = "done", !.userId = userId,
                       !.response = [status |-> 400, success |-> FALSE,
                                     error |-> "Message is required"]]
    /\ UNCHANGED textInput
    /\ UNCHANGED <<authVars, turnVars, clientVars, raceVars, voiceVars, slotVars>>

\* emailService.ts:632-650, 683-689: the events and e-mails are fetched
\* together; if one of the fetches fails the request ends with its error.
Prefetch ==
    /\ chat.pc = "prefetch"
    /\ \/ chat' = [chat EXCEPT !.pc = "processUserInput"]
       \/ \E error \in {"Failed to fetch calendar events",
                        "Failed to fetch recent emails"} :
             chat' = [chat EXCEPT
                        !.pc = "done",
                        !.response = [status |-> 500, success |-> FALSE,
                                      error |-> error]]
    /\ UNCHANGED <<chatNo, textInput>>
    /\ UNCHANGED <<authVars, turnVars, clientVars, raceVars, voiceVars, slotVars>>

\* emailService.ts:653-665
ProcessUserInput ==
    /\ chat.pc = "processUserInput"
    /\ \E answer \in ProviderAnswers :
          chat' = [chat EXCEPT
                     !.pc = "executeAction",
                     !.answer = answer,
                     !.aiResponse = processUserInput(answer)]
    /\ UNCHANGED <<chatNo, textInput>>
    /\ UNCHANGED <<authVars, turnVars, clientVars, raceVars, voiceVars, slotVars>>

\* emailService.ts:667-671
ExecuteAction ==
    /\ chat.pc = "executeAction"
    /\ IF Truthy(chat.aiResponse.action)
       THEN \E run \in executeAction(chat.aiResponse.action) :
               chat' = [chat EXCEPT
                          !.pc = "respond", !.executed = TRUE, !.run = run]
       ELSE chat' = [chat EXCEPT !.pc = "respond"]
    /\ UNCHANGED <<chatNo, textInput>>
    /\ UNCHANGED <<authVars, turnVars, clientVars, raceVars, voiceVars, slotVars>>

\* emailService.ts:673-682
ChatResponds ==
    /\ chat.pc = "respond"
    /\ chat' = [chat EXCEPT
                  !.pc = "done",
                  !.response = [status |-> 200, success |-> TRUE,
                                response |-> chat.aiResponse.response,
                                action |-> chat.aiResponse.action,
                                actionResult |-> chat.run.result]]
    /\ UNCHANGED <<chatNo, textInput>>
    /\ UNCHANGED <<authVars, turnVars, clientVars, raceVars, voiceVars, slotVars>>

\* The client has the response; the next request may come.
ChatCloses ==
    /\ chat.pc = "done"
    /\ chat' = IdleChat
    /\ UNCHANGED <<chatNo, textInput>>
    /\ UNCHANGED <<authVars, turnVars, clientVars, raceVars, voiceVars, slotVars>>

NoTextInput == [answer |-> [kind |-> "none"], outcome |-> [kind |-> "none"]]

\* openaiService.ts:44-100  a call of OpenAIService.processTextInput
ProcessTextInput ==
    /\ \E answer \in ProviderAnswers :
          textInput' = [answer |-> answer,
                        outcome |-> processTextInput(answer)]
    /\ UNCHANGED <<chat, chatNo>>
    /\ UNCHANGED <<authVars, turnVars, clientVars, raceVars, voiceVars, slotVars>>

InitChatVars ==
    /\ chat = IdleChat
    /\ chatNo = 0
    /\ textInput = NoTextInput

NextChat ==
    \/ \E userId \in Principals, hasMessage \in BOOLEAN :
          ChatRequest(userId, hasMessage)
    \/ Prefetch
    \/ ProcessUserInput
    \/ ExecuteAction
    \/ ChatResponds
    \/ ChatCloses
    \/ ProcessTextInput

-----------------------------------------------------------------------------
(* Concurrent POST /api/chat requests for one session (part_002:105-124):     *)
(* every request runs VoiceAssistant.processTextInput, and each await is a    *)
(* point where another request may run.                                       *)

Connections == {"first", "second"}

MaxRequests == 3

IdleRequest ==
    [pc |-> "idle", n |-> 0, intent |-> NoIntent,
     aiResponse |-> [none |-> TRUE]]

RaceContextId == ContextId("user1", "default")

\* part_002:105-113, part_001:205-214: the request arrives; the conversation
\* is looked up and the user message stored in the database.
RequestArrives(c) ==
    /\ requests[c].pc = "idle"
    /\ turnNo < MaxRequests
    /\ turnNo' = turnNo + 1
    /\ requests' = [requests EXCEPT
                      ![c] = [IdleRequest EXCEPT
                                !.pc = "generateResponse", !.n = turnNo + 1]]
    /\ dbMessages' = Append(dbMessages, [role |-> "USER", turn |-> turnNo + 1])
    /\ UNCHANGED <<conversations, turn, lastIncomplete>>
    /\ UNCHANGED <<authVars, clientVars, chatVars, voiceVars, slotVars>>

\* part_003:94-101: generateResponse gets the context and appends the user
\* message.
RequestAppendsUser(c) ==
    /\ requests[c].pc = "generateResponse"
    /\ conversations' =
          [getContext(conversations, RaceContextId) EXCEPT
             ![RaceContextId].messages =
                Append(@, [role |-> "user", content |-> "utterance",
                           turn |-> requests[c].n])]
    /\ requests' = [requests EXCEPT ![c].pc = "analyzeIntent"]
    /\ UNCHANGED <<dbMessages, turn, turnNo, lastIncomplete>>
    /\ UNCHANGED <<authVars, clientVars, chatVars, voiceVars, slotVars>>

\* part_003:104  await this.analyzeIntent(...)
RequestClassified(c) ==
    /\ requests[c].pc = "analyzeIntent"
    /\ \E intent \in StoreIntents :
          requests' = [requests EXCEPT
                         ![c].pc = "completion", ![c].intent = intent]
    /\ UNCHANGED <<conversations, dbMessages, turn, turnNo, lastIncomplete>>
    /\ UNCHANGED <<authVars, clientVars, chatVars, voiceVars, slotVars>>

\* part_003:113-144: the reply is appended and the context trimmed.
RequestReplies(c) ==
    /\ requests[c].pc = "completion"
    /\ conversations' =
          [conversations EXCEPT
             ![RaceContextId].messages =
                TrimMessages(Append(@, [role |-> "assistant",
                                        content |-> "reply",
                                        turn |-> requests[c].n]))]
    /\ requests' = [requests EXCEPT
                      ![c].pc = "afterResponse",
                      ![c].aiResponse =
                         [response |-> "reply",
                          intent |-> requests[c].intent,
                          needsMoreInfo |->
                             checkIfNeedsMoreInfo(requests[c].intent)]]
    /\ UNCHANGED <<dbMessages, turn, turnNo, lastIncomplete>>
    /\ UNCHANGED <<authVars, clientVars, chatVars, voiceVars, slotVars>>

\* part_003:145-151: the completion throws.
RequestGetsApology(c) ==
    /\ requests[c].pc = "completion"
    /\ requests' = [requests EXCEPT
                      ![c].pc = "afterResponse",
                      ![c].aiResponse =
                         [response |-> Apology, intent |-> NoIntent]]
    /\ UNCHANGED <<conversations, dbMessages, turn, turnNo, lastIncomplete>>
    /\ UNCHANGED <<authVars, clientVars, chatVars, voiceVars, slotVars>>

\* part_001:219-238, part_002:117-123: the reply is stored, the intent
\* handled when eligible, and the request answered.
RequestAnswered(c) ==
    /\ requests[c].pc = "afterResponse"
    /\ dbMessages' = Append(dbMessages, [role |-> "ASSISTANT",
                                         turn |-> requests[c].n])
    /\ requests' = [requests EXCEPT ![c] = IdleRequest]
    /\ UNCHANGED <<conversations, turn, turnNo, lastIncomplete>>
    /\ UNCHANGED <<authVars, clientVars, chatVars, voiceVars, slotVars>>

InitRaceVars == requests = [c \in Connections |-> IdleRequest]

NextRace ==
    \E c \in Connections :
        \/ RequestArrives(c)
        \/ RequestAppendsUser(c)
        \/ RequestClassified(c)
        \/ RequestReplies(c)
        \/ RequestGetsApology(c)
        \/ RequestAnswered(c)

-----------------------------------------------------------------------------
(* Voice sessions (part_001:170-202, DatabaseService.js:132-146, 209-237) *)

MaxVoiceSessions == 2

VoiceSessionIds == 1..MaxVoiceSessions

NoVoiceSession == [exists |-> FALSE, status |-> "", old |-> FALSE]

\* DatabaseService.js:221  status: { in: ['COMPLETED', 'FAILED'] }
Terminal == {"COMPLETED", "FAILED"}

InitVoiceVars ==
    voice = [pc |-> "idle", id |-> 0, created |-> 0,
             sessions |-> [id \in VoiceSessionIds |-> NoVoiceSession]]

\* part_002:83-96 and part_001:172-175: POST /api/voice calls
\* processVoiceInput, which creates the session with status RECORDING.
CreateVoiceSession ==
    /\ voice.pc = "idle"
    /\ voice.created < MaxVoiceSessions
    /\ LET id == voice.created + 1
       IN  voice' = [voice EXCEPT
                       !.pc = "speechToText", !.id = id, !.created = id,
                       !.sessions[id] = [exists |-> TRUE,
                                         status |-> "RECORDING",
                                         old |-> FALSE]]
    /\ UNCHANGED <<authVars, turnVars, clientVars, chatVars, raceVars,
                   slotVars>>

\* part_001:178 and part_003:211-222: the transcription comes back.
SpeechToTextReturns ==
    /\ voice.pc = "speechToText"
    /\ voice' = [voice EXCEPT !.pc = "updateProcessing"]
    /\ UNCHANGED <<authVars, turnVars, clientVars, chatVars, raceVars,
                   slotVars>>

\* part_003:223-226: speechToText throws; part_001:198-201: the catch of
\* processVoiceInput logs and rethrows.
SpeechToTextThrows ==
    /\ voice.pc = "speechToText"
    /\ voice' = [voice EXCEPT !.pc = "thrown"]
    /\ UNCHANGED <<authVars, turnVars, clientVars, chatVars, raceVars,
                   slotVars>>

\* part_001:181-184  updateVoiceSession(id, {transcription, status})
UpdateToProcessing ==
    /\ voice.pc = "updateProcessing"
    /\ voice' = [voice EXCEPT !.pc = "processTextInput",
                              !.sessions[voice.id].status = "PROCESSING"]
    /\ UNCHANGED <<authVars, turnVars, clientVars, chatVars, raceVars,
                   slotVars>>

\* part_001:187  processTextInput returns its result.
TextInputReturns ==
    /\ voice.pc = "processTextInput"
    /\ voice' = [voice EXCEPT !.pc = "updateCompleted"]
    /\ UNCHANGED <<authVars, turnVars, clientVars, chatVars, raceVars,
                   slotVars>>

\* part_001:235-238: processTextInput rethrows what it catches;
\* part_001:198-201: so does processVoiceInput.
TextInputThrows ==
    /\ voice.pc = "processTextInput"
    /\ voice' = [voice EXCEPT !.pc = "thrown"]
    /\ UNCHANGED <<authVars, turnVars, clientVars, chatVars, raceVars,
                   slotVars>>

\* part_001:190-196  updateVoiceSession(id, {intent, response, status})
UpdateToCompleted ==
    /\ voice.pc = "updateCompleted"
    /\ voice' = [voice EXCEPT !.pc = "returned",
                              !.sessions[voice.id].status = "COMPLETED"]
    /\ UNCHANGED <<authVars, turnVars, clientVars, chatVars, raceVars,
                   slotVars>>

\* part_002:97-101: the route answers with the result or with status 500.
VoiceResponds ==
    /\ voice.pc \in {"returned", "thrown"}
    /\ voice' = [voice EXCEPT !.pc = "idle"]
    /\ UNCHANGED <<authVars, turnVars, clientVars, chatVars, raceVars,
                   slotVars>>

\* Time passes until the session's createdAt is before the cutoff date of
\* cleanupOldData (DatabaseService.js:210-211).
CutoffPasses(id) ==
    /\ voice.sessions[id].exists
    /\ ~voice.sessions[id].old
    /\ voice' = [voice EXCEPT !.sessions[id].old = TRUE]
    /\ UNCHANGED <<authVars, turnVars, clientVars, chatVars, raceVars,
                   slotVars>>

\* DatabaseService.js:209-224  cleanupOldData: deleteMany of the sessions
\* created before the cutoff whose status is COMPLETED or FAILED
cleanupOldData ==
    /\ voice' = [voice EXCEPT !.sessions =
                    [id \in VoiceSessionIds |->
                        IF /\ voice.sessions[id].exists
                           /\ voice.sessions[id].old
                           /\ voice.sessions[id].status \in Terminal
                        THEN NoVoiceSession
                        ELSE voice.sessions[id]]]
    /\ UNCHANGED <<authVars, turnVars, clientVars, chatVars, raceVars,
                   slotVars>>

NextVoice ==
    \/ CreateVoiceSession
    \/ SpeechToTextReturns
    \/ SpeechToTextThrows
    \/ UpdateToProcessing
    \/ TextInputReturns
    \/ TextInputThrows
    \/ UpdateToCompleted
    \/ VoiceResponds
    \/ \E id \in VoiceSessionIds : CutoffPasses(id)
    \/ cleanupOldData

-----------------------------------------------------------------------------
(* CalendarService.checkAvailability (calendarService.ts:206-293). Times are  *)
(* minutes since the local midnight of the first day.                        *)

MinutesPerDay == 1440

\* calendarService.ts:216-217  setHours(0, 0, 0, 0)
StartOfDay(date) == (date \div MinutesPerDay) * MinutesPerDay

\* calendarService.ts:219-220  setHours(23, 59, 59, 999): the last instant
\* of the day, which is before every time of the next day
EndOfDay(date) == StartOfDay(date) + MinutesPerDay - 1

\* calendarService.ts:47-55  events.list with timeMin and timeMax: the events
\* of the calendar that end after timeMin and start before timeMax
getEvents(calendar, startDate, endDate) ==
    {event \in calendar :
        event.endDate > startDate /\ event.startDate < endDate}

\* calendarService.ts:235-239 and 264-268  the conflict test
Conflicts(start, end, event) ==
    \/ start >= event.startDate /\ start < event.endDate
    \/ end > event.startDate /\ end <= event.endDate
    \/ start <= event.startDate /\ end >= event.endDate

\* calendarService.ts:248  const workingHours = { start: 9, end: 17 }
WorkingHours == [start |-> 9, end |-> 17]

\* calendarService.ts:281  if (suggestedTimes.length >= 3) break
MaxSuggestions == 3

\* Math.ceil(durationMinutes / 60)
CeilHours(durationMinutes) == (durationMinutes + 59) \div 60

\* calendarService.ts:274-277  toLocaleTimeString("en-US", {hour: "2-digit",
\* minute: "2-digit"}) of a whole hour: the 12-hour clock
toLocaleTimeString(hour) ==
    [hour |-> IF hour % 12 = 0 THEN 12 ELSE hour % 12,
     minute |-> 0,
     period |-> IF hour < 12 THEN "AM" ELSE "PM"]

\* calendarService.ts:250-282  the loop over the hours, from hour on
RECURSIVE SuggestFrom(_, _, _, _, _)
SuggestFrom(hour, date, durationMinutes, events, suggestedTimes) ==
    IF hour > WorkingHours.end - CeilHours(durationMinutes)
    THEN suggestedTimes
    ELSE LET slotStart == StartOfDay(date) + hour * 60
             slotEnd == slotStart + durationMinutes
             hasConflict ==
                 \E event \in events : Conflicts(slotStart, slotEnd, event)
             pushed == IF hasConflict
                       THEN suggestedTimes
                       ELSE Append(suggestedTimes, toLocaleTimeString(hour))
         IN  IF Len(pushed) >= MaxSuggestions
             THEN pushed
             ELSE SuggestFrom(hour + 1, date, durationMinutes, events, pushed)

\* calendarService.ts:206-287  checkAvailability on the calendar given
checkAvailability(calendar, date, durationMinutes) ==
    LET events == getEvents(calendar, StartOfDay(date), EndOfDay(date))
        requestedStart == date
        requestedEnd == date + durationMinutes
        conflictingEvents ==
            {event \in events :
                Conflicts(requestedStart, requestedEnd, event)}
        isAvailable == conflictingEvents = {}
    IN  [isAvailable |-> isAvailable,
         conflictingEvents |-> conflictingEvents,
         suggestedTimes |->
             IF isAvailable
             THEN <<>>
             ELSE SuggestFrom(WorkingHours.start, date, durationMinutes,
                              events, <<>>)]

\* The requests and calendars checked: starts before, inside and after the
\* working hours, and events around them and on the next day.
MaxEvents == 2

RequestedStarts == {510, 540, 960, 1410}
RequestedDurations == {30, 60, 90}

CalendarEvents ==
    {[startDate |-> 540, endDate |-> 600],
     [startDate |-> 570, endDate |-> 660],
     [startDate |-> 600, endDate |-> 1020],
     [startDate |-> 960, endDate |-> 1020],
     [startDate |-> 1380, endDate |-> 1410],
     [startDate |-> 1440, endDate |-> 1500]}

Calendars == {c \in SUBSET CalendarEvents : Cardinality(c) <= MaxEvents}

NoAvailabilityCheck ==
    [date |-> 0, durationMinutes |-> 0, events |-> {},
     result |-> [kind |-> "none"]]

InitSlotVars == availability = NoAvailabilityCheck

\* A request for checkAvailability and the calendar it finds.
InitSlotInputs ==
    \E date \in RequestedStarts, durationMinutes \in RequestedDurations,
       events \in Calendars :
        availability = [date |-> date, durationMinutes |-> durationMinutes,
                        events |-> events, result |-> [kind |-> "none"]]

CheckAvailability ==
    /\ availability.result.kind = "none"
    /\ availability' =
          [availability EXCEPT !.result =
              [kind |-> "returned",
               value |-> checkAvailability(availability.events,
                                           availability.date,
                                           availability.durationMinutes)]]
    /\ UNCHANGED <<authVars, turnVars, clientVars, chatVars, raceVars,
                   voiceVars>>

\* calendarService.ts:288-291: getEvents threw
CheckAvailabilityThrows ==
    /\ availability.result.kind = "none"
    /\ availability' =
          [availability EXCEPT !.result =
              [kind |-> "thrown",
               message |-> "Failed to check availability"]]
    /\ UNCHANGED <<authVars, turnVars, clientVars, chatVars, raceVars,
                   voiceVars>>

NextSlots ==
    \/ CheckAvailability
    \/ CheckAvailabilityThrows

-----------------------------------------------------------------------------
(* Initial states and specifications *)

InitTurnVars ==
    /\ conversations = [id \in ContextIds |-> NoContext]
    /\ dbMessages = <<>>
    /\ turn = IdleTurn
    /\ turnNo = 0
    /\ lastIncomplete = NoIntent
    /\ credentials = ""

InitAuthVars ==
    /\ user = NoUser
    /\ now = 0
    /\ issued = 0
    /\ call = [p \in Callers |-> IdleCall]

NextTurn ==
    \/ \E entry \in {"processTextInput", "handleFollowUp"},
          userId \in UserIds, sessionId \in SessionIds :
            StartTurn(entry, userId, sessionId)
    \/ AnalyzeIntent
    \/ CompletionAnswers
    \/ CompletionThrows
    \/ ProcessTextInputFinish
    \/ HandleFollowUpFinish
    \/ TurnReturns

NextStore ==
    \/ \E userId \in UserIds, sessionId \in SessionIds :
          StartStoreTurn("processTextInput", userId, sessionId)
    \/ AnalyzeStoreIntent
    \/ CompletionAnswers
    \/ CompletionThrows
    \/ ProcessTextInputFinish
    \/ TurnReturns
    \/ \E userId \in UserIds, sessionId \in SessionIds :
          ClearContext(userId, sessionId)
    \/ \E userId \in Principals, hasTokens \in BOOLEAN :
          InitializeUser(userId, hasTokens)

InitTurn ==
    InitAuthVars /\ InitTurnVars /\ InitChatVars /\ InitRaceVars
        /\ InitVoiceVars /\ InitSlotVars

InitStore ==
    InitAuthVars /\ InitTurnVars /\ InitChatVars /\ InitRaceVars
        /\ InitVoiceVars /\ InitSlotVars

InitAuth ==
    InitAuthVars /\ InitTurnVars /\ InitChatVars /\ InitRaceVars
        /\ InitVoiceVars /\ InitSlotVars

SpecAuth == InitAuth /\ [][NextAuth]_vars

SpecTurn == InitTurn /\ [][NextTurn]_vars

SpecStore == InitStore /\ [][NextStore]_vars

InitChat ==
    InitAuthVars /\ InitTurnVars /\ InitChatVars /\ InitRaceVars
        /\ InitVoiceVars /\ InitSlotVars

SpecChat == InitChat /\ [][NextChat]_vars

InitRace ==
    InitAuthVars /\ InitTurnVars /\ InitChatVars /\ InitRaceVars
        /\ InitVoiceVars /\ InitSlotVars

SpecRace == InitRace /\ [][NextRace]_vars

InitKeys ==
    InitAuthVars /\ InitTurnVars /\ InitChatVars /\ InitRaceVars
        /\ InitVoiceVars /\ InitSlotVars

SpecKeys == InitKeys /\ [][NextKeys]_vars

InitVoice ==
    InitAuthVars /\ InitTurnVars /\ InitChatVars /\ InitRaceVars
        /\ InitVoiceVars /\ InitSlotVars

SpecVoice == InitVoice /\ [][NextVoice]_vars

InitSlots ==
    InitAuthVars /\ InitTurnVars /\ InitChatVars /\ InitRaceVars
        /\ InitVoiceVars /\ InitSlotInputs

SpecSlots == InitSlots /\ [][NextSlots]_vars

InitRefresh ==
    InitRefreshVars /\ InitTurnVars /\ InitChatVars /\ InitRaceVars
        /\ InitVoiceVars /\ InitSlotVars

SpecRefresh == InitRefresh /\ [][NextRefresh]_vars

-----------------------------------------------------------------------------
(* Properties of the token lifecycle *)

Fresh(c) == c.read.tokenExpiry > c.readAt + Skew

\* C4: a call that reads tokenExpiry > now + 5 min returns the stored access
\* token, sends no refresh request and assigns or saves nothing; the step
\* leaves the stored principal as it is.  A call that reads
\* tokenExpiry <= now + 5 min (exactly now + 5 included) with a refresh
\* token stored sends exactly one refresh request.
C4_RefreshOnlyInsideWindow ==
    /\ [](\A p \in Callers :
            LET c == call[p] IN
            c.read.exists =>
              /\ Fresh(c) =>
                   /\ c.pc = "done"
                   /\ c.result = [kind |-> "token",
                                  token |-> c.read.accessToken]
                   /\ c.refreshCalls = 0
                   /\ c.modified = {}
                   /\ ~c.saved
              /\ (~Fresh(c) /\ c.read.refreshToken # NoToken) =>
                   c.refreshCalls = 1)
    /\ [][\A p \in Callers :
            (call[p].pc = "idle" /\ call'[p].pc = "done") => user' = user
         ]_vars

\* One call took the fast path on a token expiring after now + 5 min and
\* another, later, found the token exactly at now + 5 min and sent a refresh
\* request.
C4_Witness ==
    \E p, q \in Callers :
        /\ call[p].read.exists /\ call[p].pc = "done"
        /\ call[p].read.tokenExpiry > call[p].readAt + Skew
        /\ call[p].result = [kind |-> "token",
                             token |-> call[p].read.accessToken]
        /\ call[q].read.exists
        /\ call[q].read.tokenExpiry = call[q].readAt + Skew
        /\ call[q].pc = "refreshing"

RefreshFailed(c) == c.cause = "Failed to refresh access token"

\* C5: when the refresh request fails the call ends in an error, hands no
\* token (so not the stale one) to the caller and has written nothing; the
\* failing step leaves the stored principal as it is.
C5_RefreshFailureKeepsPrincipal ==
    /\ [](\A p \in Callers :
            RefreshFailed(call[p]) =>
              /\ call[p].pc = "done"
              /\ call[p].result.kind = "error"
              /\ ~call[p].saved)
    /\ [][\A p \in Callers :
            (call[p].pc = "refreshing" /\ call'[p].pc = "done")
               => user' = user
         ]_vars

C5_Witness ==
    \E p \in Callers :
        /\ RefreshFailed(call[p])
        /\ user = call[p].read
        /\ call[p].sent = user.refreshToken

\* C6: the failure of getValidAccessToken tells its cause: a call that fails
\* for want of a refresh token (without sending a refresh request) and a call
\* that fails because the refresh request failed give the caller different
\* errors.
C6_FailureIdentifiesCause ==
    \A p, q \in Callers :
        (/\ call[p].cause = "No refresh token available"
         /\ call[q].cause = "Failed to refresh access token")
        => /\ call[p].refreshCalls = 0
           /\ call[p].result # call[q].result

C8_SingleRefreshInFlight ==
    \A p, q \in Callers :
        (/\ call[p].pc = "refreshing"
         /\ call[q].pc = "refreshing"
         /\ call[p].sent = call[q].sent)
        => p = q

-----------------------------------------------------------------------------
(* Properties of a turn *)

Dispatched == turn.handled # <<>>

Falsy(v) == v = Undefined \/ v = Str("")

\* C1: in a turn whose classified intent has confidence <= 0.7 (0.7
\* included) handleIntent is never invoked and no calendar or e-mail
\* operation is called, whatever the parameters.
C1_LowConfidenceNeverDispatches ==
    (turn.pc # "idle" /\ turn.intent.confidence <= 70) =>
        /\ ~Dispatched
        /\ turn.run.calls = <<>>

\* A processTextInput turn has finished whose intent was a complete
\* schedule_event with confidence exactly 0.7.
C1_Witness ==
    /\ turn.pc = "done"
    /\ turn.entry = "processTextInput"
    /\ turn.intent.action = "schedule_event"
    /\ turn.intent.confidence = 70
    /\ turn.intent.parameters.title = Str("Budget Review")
    /\ turn.intent.parameters.dateTime = Str("tomorrow")
    /\ turn.aiResponse.intent = turn.intent
    /\ ~Dispatched

\* C2: in a turn whose result says needsMoreInfo, handleIntent is not
\* invoked, also when the confidence is above 0.7.
C2_NeedsMoreInfoNeverDispatches ==
    (turn.pc = "done" /\ NeedsMoreInfoOf(turn.aiResponse)) => ~Dispatched

\* C3: for a schedule_event intent with title or dateTime missing the gate
\* says needs-more-info, and the turn makes no calendar create call and sends
\* no invitation, whatever the confidence.
C3_IncompleteScheduleNeverCreates ==
    LET ps == turn.intent.parameters IN
    (/\ turn.pc # "idle"
     /\ turn.intent.action = "schedule_event"
     /\ (Falsy(ps.title) \/ Falsy(ps.dateTime))) =>
        /\ \A i \in 1..Len(turn.run.calls) :
              turn.run.calls[i] \notin {"createEvent", "sendEmail"}
        /\ (turn.pc \in {"afterResponse", "done"}
              /\ turn.aiResponse.intent = turn.intent)
             => turn.aiResponse.needsMoreInfo = TRUE

\* A schedule_event intent with attendees and a title but no dateTime was
\* handed to handleIntent with confidence 0.85, and nothing was called.
C3_Witness ==
    /\ turn.pc = "done"
    /\ Dispatched
    /\ turn.intent.action = "schedule_event"
    /\ turn.intent.confidence = 85
    /\ turn.intent.parameters.title = Str("Budget Review")
    /\ turn.intent.parameters.dateTime = Undefined
    /\ turn.intent.parameters.attendees = Arr(<<GoodAddress>>)
    /\ turn.run.calls = <<>>
    /\ turn.aiResponse.needsMoreInfo = TRUE

\* C9: after a turn, the context holds a pending task if and only if the
\* turn's intent had confidence > 0.7 and the gate judged it incomplete; the
\* pending task then holds that intent's action and parameters; an intent
\* "none" leaves no pending task.
C9_PendingTaskIffIncomplete ==
    turn.pc = "done" =>
        LET ctx == conversations[TurnContextId]
            r == turn.aiResponse
            owed == r.intent.confidence > 70 /\ NeedsMoreInfoOf(r)
        IN  /\ Truthy(ctx.currentTask) <=> owed
            /\ owed => /\ ctx.currentTask = Str(r.intent.action)
                       /\ ctx.pendingData = r.intent.parameters
            /\ r.intent.action = "none" => ~Truthy(ctx.currentTask)

\* Parameters collected earlier, overridden by the newly extracted ones.
Merge(old, new) ==
    [k \in ParamNames |-> IF new[k] # Undefined THEN new[k] ELSE old[k]]

\* C10: when the previous turn left its intent incomplete and this turn's
\* intent, of the same action and with confidence > 0.7, completes it, the
\* gate is passed on the merged parameters: handleIntent is invoked once with
\* the merged parameters (handleFollowUp hands them to its caller) and no
\* pending task remains.
C10_FollowUpDispatchesMerged ==
    LET r == turn.aiResponse
        merged == [action |-> lastIncomplete.action,
                   confidence |-> r.intent.confidence,
                   parameters |-> Merge(lastIncomplete.parameters,
                                        r.intent.parameters)]
    IN  (/\ turn.pc = "done"
         /\ lastIncomplete # NoIntent
         /\ r.intent.action = lastIncomplete.action
         /\ r.intent.confidence > 70
         /\ ~checkIfNeedsMoreInfo(merged)) =>
            /\ turn.entry = "processTextInput" => turn.handled = <<merged>>
            /\ turn.entry = "handleFollowUp" =>
                  /\ turn.outcome.value.action = merged.action
                  /\ turn.outcome.value.parameters = merged.parameters
            /\ ~Truthy(conversations[TurnContextId].currentTask)

-----------------------------------------------------------------------------
(* Properties of the clarification gate *)

\* A required parameter that is absent, an empty string or an empty list.
Missing(v) == v \in {Undefined, Str(""), Arr(<<>>)}

RequiredMissing(intent) ==
    CASE intent.action = "schedule_event" ->
            Missing(intent.parameters.title)
              \/ Missing(intent.parameters.dateTime)
      [] intent.action = "check_availability" ->
            Missing(intent.parameters.date)
      [] intent.action = "send_email" ->
            Missing(intent.parameters.recipients)
              \/ Missing(intent.parameters.subject)
      [] OTHER -> FALSE

\* C11: the needsMoreInfo that generateResponse returns with an intent is
\* true exactly when the intent is schedule_event without title or dateTime,
\* check_availability without date, or send_email without recipients or
\* subject, where an empty string and an empty recipients list count as
\* missing; it is false for every other action.
C11_NeedsMoreInfoExactly ==
    "needsMoreInfo" \in DOMAIN turn.aiResponse =>
        turn.aiResponse.needsMoreInfo = RequiredMissing(turn.aiResponse.intent)

-----------------------------------------------------------------------------
(* Properties of the conversation store *)

SystemMessagesOf(msgs) == SelectSeq(msgs, LAMBDA m : m.role = "system")

\* The message of the given role and turn.
Msg(role, n) ==
    [role |-> role,
     content |-> IF role = "user" THEN "utterance" ELSE "reply",
     turn |-> n]

\* C12: when generateResponse appends the reply and trims the context to 10
\* messages, a context that would be longer than 10 is left with exactly 10
\* messages: the system message first, then the 9 most recent messages in
\* the order they were appended; a context of at most 10 messages is left
\* as it is.  The trimmed context has a single system message.
C12_TrimKeepsSystemAndNewest ==
    [][(/\ turn.pc = "completion"
        /\ turn'.pc = "afterResponse"
        /\ "needsMoreInfo" \in DOMAIN turn'.aiResponse
        /\ ~turn.detached) =>
          LET id == TurnContextId
              all == Append(conversations[id].messages,
                            [role |-> "assistant",
                             content |-> turn'.aiResponse.response,
                             turn |-> turn.n])
              after == conversations'[id].messages
          IN  /\ Len(all) <= 10 => after = all
              /\ Len(all) > 10 =>
                    /\ Len(after) = 10
                    /\ after[1] = SystemMessage
                    /\ \A i \in 2..10 : after[i] = all[Len(all) - 10 + i]
              /\ Len(SystemMessagesOf(after)) = 1]_vars

\* 15 messages were appended to the context (turn 7 got no reply) and the
\* last reply's trim left the system message and the 9 newest.
C12_Witness ==
    /\ turn.pc = "afterResponse"
    /\ turn.n = 8
    /\ conversations[TurnContextId].exists
    /\ conversations[TurnContextId].messages =
          <<SystemMessage, Msg("user", 4), Msg("assistant", 4),
            Msg("user", 5), Msg("assistant", 5), Msg("user", 6),
            Msg("assistant", 6), Msg("user", 7), Msg("user", 8),
            Msg("assistant", 8)>>

\* C13: clearContext leaves nothing under the key, neither messages nor a
\* pending task; a second clearContext changes nothing; and the next
\* getContext for the key gives a new context that holds only the system
\* message.
C13_ClearIsIdempotent ==
    [][\A userId \in UserIds, sessionId \in SessionIds :
         ClearContext(userId, sessionId) =>
            LET id == ContextId(userId, sessionId)
                next == getContext(conversations', id)
            IN  /\ ~conversations'[id].exists
                /\ DOMAIN conversations'[id] = {"exists"}
                /\ clearContext(conversations', id) = conversations'
                /\ next[id].messages = <<SystemMessage>>
                /\ ~Truthy(next[id].currentTask)
                /\ ~Truthy(next[id].pendingData)]_vars

\* The context was cleared after the first turn and the second turn started
\* on a new one.
C13_Witness ==
    /\ turn.pc = "analyzeIntent"
    /\ turn.n = 2
    /\ conversations[TurnContextId].messages =
          <<SystemMessage, Msg("user", 2)>>

-----------------------------------------------------------------------------
(* Properties of the classifier, the dispatcher and the turn result *)

\* C14: when the provider fails or its output cannot be parsed, the
\* classifier does not throw: it returns an intent without an action, with
\* confidence 0, and nothing is dispatched.
C14_ClassifierFailsSoft ==
    /\ ProviderFault(chat.answer) =>
          /\ ~Truthy(chat.aiResponse.action)
          /\ chat.aiResponse.confidence = 0
          /\ ~chat.executed
    /\ ProviderFault(textInput.answer) =>
          /\ textInput.outcome.kind = "returned"
          /\ ~Truthy(textInput.outcome.value.action)

\* C15: a turn always ends by returning a result to its caller, never by
\* throwing; when the dispatcher threw, the result carries the apology and
\* no action.
C15_NoFaultEscapesTurn ==
    turn.pc = "done" =>
        /\ turn.outcome.kind = "returned"
        /\ turn.run.thrown =>
              /\ turn.outcome.value.response = Apology
              /\ turn.outcome.value.intent.action = "none"

Failed(result) == "success" \in DOMAIN result /\ ~result.success

\* C16: when no valid token could be obtained while executing an action,
\* executeAction returns a failed result that tells the token failure apart
\* from every outcome in which the token was obtained, and no calendar or
\* e-mail provider call was made.
C16_TokenFailureIsAuthFailure ==
    (chat.executed /\ ~chat.run.acquired) =>
        /\ chat.run.calls = <<>>
        /\ Failed(chat.run.result)
        /\ \A other \in executeAction(chat.aiResponse.action) :
              other.acquired => other.result # chat.run.result

\* C17: the calendar and e-mail calls a turn of user U makes are made with
\* the credential of U.
C17_CallsUseOwnCredential ==
    (turn.pc = "done" /\ turn.run.calls # <<>>) =>
        turn.credential = turn.userId

\* C18: a dispatched action invokes at most one calendar or e-mail
\* operation, and exactly one when its handler succeeded or threw: never a
\* second operation, never the same operation again.
C18_OneOperationPerAction ==
    (turn.pc = "done" /\ turn.handled # <<>>) =>
        /\ Len(turn.run.calls) <= 1
        /\ (turn.run.success \/ turn.run.thrown) => Len(turn.run.calls) = 1

\* C19: when the model calls a function the dispatcher does not know, the
\* response carries a failed action result that reports the unknown action,
\* and no provider call was made.
C19_UnknownActionReported ==
    (/\ chat.pc = "done"
     /\ chat.answer.kind = "function_call"
     /\ ~ProviderFault(chat.answer)
     /\ chat.answer.name \notin FunctionNames) =>
        /\ chat.run.calls = <<>>
        /\ chat.response.actionResult = Failure("Unknown action type")

AssistantMessagesOf(msgs, n) ==
    SelectSeq(msgs, LAMBDA m : m.role = "assistant" /\ m.turn = n)

\* C20: in a turn that dispatches an action, the assistant message is not in
\* the context before the dispatcher has returned, and the turn result
\* carries the dispatcher's result.
C20_ReplyFollowsActionResult ==
    /\ (/\ turn.pc = "afterResponse"
        /\ turn.entry = "processTextInput"
        /\ ~turn.detached
        /\ Eligible(turn.aiResponse.intent.confidence)) =>
          AssistantMessagesOf(conversations[TurnContextId].messages,
                              turn.n) = <<>>
    /\ (/\ turn.pc = "done"
        /\ turn.handled # <<>>
        /\ turn.outcome.kind = "returned") =>
          /\ "actionResult" \in DOMAIN turn.outcome.value
          /\ turn.outcome.value.actionResult.success = turn.run.success

\* The action types that change the calendar or send an e-mail.
SideEffecting ==
    {"calendar_create", "calendar_update", "calendar_delete", "email_send"}

\* C21: the refresh flag of a result is true only when an action was
\* executed and succeeded, and then exactly for create, update and delete
\* event and send email: a POST /chat response that executed an action
\* carries the flag with that value, and processTextInput, which executes
\* nothing, never sets it.
C21_RefreshFlagFollowsSuccess ==
    /\ (chat.pc = "done" /\ chat.executed) =>
          /\ "shouldRefreshData" \in DOMAIN chat.response
          /\ chat.response.shouldRefreshData =
                (/\ chat.aiResponse.action.type \in SideEffecting
                 /\ ~Failed(chat.run.result))
    /\ textInput.outcome.kind = "returned" =>
          ~textInput.outcome.value.shouldRefreshData

-----------------------------------------------------------------------------
(* Properties of concurrent turns, of the context over many turns and of     *)
(* the context keys                                                           *)

\* C22: with concurrent requests for one session, the messages of the
\* context are in the order in which their requests arrived, and every
\* assistant reply directly follows the user message of its own request
\* (or the system message, when the trim removed that user message).
C22_ConcurrentTurnsKeepOrder ==
    conversations[RaceContextId].exists =>
        LET msgs == conversations[RaceContextId].messages
        IN  /\ \A i, j \in 2..Len(msgs) :
                  i < j => msgs[i].turn <= msgs[j].turn
            /\ \A i \in 2..Len(msgs) :
                  msgs[i].role = "assistant" =>
                     \/ msgs[i - 1].role = "system"
                     \/ /\ msgs[i - 1].role = "user"
                        /\ msgs[i - 1].turn = msgs[i].turn

Destructive == {"deleteEvent", "sendEmail"}

\* C23: an event is deleted or an e-mail sent only in a turn that follows a
\* confirmation step of an earlier turn: never in the first turn of a
\* conversation, where the context holds no earlier reply that could have
\* asked for the confirmation.
C23_DestructiveNeedsConfirmation ==
    (/\ turn.pc = "done"
     /\ \E i \in DOMAIN turn.run.calls : turn.run.calls[i] \in Destructive) =>
        \E i \in DOMAIN conversations[TurnContextId].messages :
           LET m == conversations[TurnContextId].messages[i]
           IN  m.role = "assistant" /\ m.turn < turn.n

\* C24: when a turn has completed, with a reply or through the error path
\* of generateResponse, its context holds at most 10 messages.
C24_ContextBoundedAfterTurn ==
    (turn.pc = "done" /\ conversations[TurnContextId].exists) =>
        Len(conversations[TurnContextId].messages) <= MaxMessages

\* C27: when a turn has completed, every user message in its context is
\* directly followed by the assistant message of the same turn; a turn
\* whose reply generation failed leaves no user message without a reply.
C27_TurnIsAtomic ==
    (turn.pc = "done" /\ conversations[TurnContextId].exists) =>
        LET msgs == conversations[TurnContextId].messages
        IN  \A i \in DOMAIN msgs :
               msgs[i].role = "user" =>
                  /\ i < Len(msgs)
                  /\ msgs[i + 1].role = "assistant"
                  /\ msgs[i + 1].turn = msgs[i].turn

-----------------------------------------------------------------------------
(* Properties of the stored tokens *)

\* C25: the stored access token and refresh token are never from two
\* different refreshes: a stored refresh token that a refresh response
\* brought is stored with the access token of that same response.
C25_StoredTripleFromOneRefresh ==
    (user.exists /\ user.refreshToken # LoggedInUser.refreshToken) =>
        user.accessToken + 1 = user.refreshToken

\* C28: once a refresh token is stored, no step of saveUser or
\* getValidAccessToken removes or blanks it; when it changes, the new value
\* is a refresh token the provider has handed out.
C28_RefreshTokenNeverBlanked ==
    [][(user.exists /\ user.refreshToken # NoToken) =>
          /\ user'.exists
          /\ user'.refreshToken # NoToken
          /\ user'.refreshToken # user.refreshToken =>
                user'.refreshToken \in 1..issued']_vars

\* A re-login or a refresh whose response had no refresh token has stored
\* its access token and left the refresh token of the first login in place.
C28_Witness ==
    /\ user.exists
    /\ user.accessToken = 3
    /\ user.refreshToken = 2

-----------------------------------------------------------------------------
(* Isolation of the contexts *)

\* C26: the context of one (userId, sessionId) pair changes only in a step
\* of a turn of that pair or in a clearContext; a turn of another pair
\* never writes to it, also when the ids contain '-'.
C26_ContextsAreIsolated ==
    [][\A pair \in KeyPairs :
         LET id == ContextId(pair[1], pair[2])
         IN  conversations'[id] # conversations[id] =>
               \/ <<turn'.userId, turn'.sessionId>> = pair
               \/ \E other \in KeyPairs : ClearContext(other[1], other[2])]_vars

-----------------------------------------------------------------------------
(* Voice sessions and availability *)

\* C29: a voice session reaches a terminal status also when transcription
\* or text processing throws. Nothing writes the status of a session after
\* its processVoiceInput call has ended, so the session has COMPLETED or
\* FAILED by then (or cleanupOldData has removed it).
C29_VoiceSessionReachesTerminal ==
    \A id \in VoiceSessionIds :
        (/\ id <= voice.created
         /\ voice.sessions[id].exists
         /\ (voice.pc = "idle" \/ voice.id # id)) =>
            voice.sessions[id].status \in Terminal

\* The half-open intervals [start, end) and [startDate, endDate) overlap.
Overlaps(start, end, event) ==
    event.startDate < end /\ start < event.endDate

\* The hour of the day a suggested time names.
HourOf(time) ==
    (time.hour % 12) + (IF time.period = "PM" THEN 12 ELSE 0)

\* C30: checkAvailability gives isAvailable iff no event of the calendar
\* overlaps [start, start + duration); no suggestions when available, and
\* otherwise at most 3 whole-hour slots from 09:00 on that end by 17:00,
\* overlap no event and are in increasing order.
C30_AvailabilityMatchesReference ==
    availability.result.kind = "returned" =>
        LET r == availability.result.value
            date == availability.date
            duration == availability.durationMinutes
            slotStart(i) == StartOfDay(date) + HourOf(r.suggestedTimes[i]) * 60
        IN  /\ r.isAvailable <=>
                  \A event \in availability.events :
                      ~Overlaps(date, date + duration, event)
            /\ r.isAvailable => r.suggestedTimes = <<>>
            /\ Len(r.suggestedTimes) <= 3
            /\ \A i \in 1..Len(r.suggestedTimes) :
                  /\ r.suggestedTimes[i].minute = 0
                  /\ HourOf(r.suggestedTimes[i]) >= 9
                  /\ slotStart(i) + duration <= StartOfDay(date) + 17 * 60
                  /\ \A event \in availability.events :
                        ~Overlaps(slotStart(i), slotStart(i) + duration, event)
                  /\ i > 1 => HourOf(r.suggestedTimes[i - 1])
                                 < HourOf(r.suggestedTimes[i])

====
